---- MODULE Spec2Model ----
(***************************************************************************)
(* rust-ingest: a model of src/main.rs.                                    *)
(*                                                                         *)
(* The program is one linear pipeline: parse arguments, build the override *)
(* list, walk the root, classify every discovered file into tree_files /   *)
(* content_files, sort both, render the tree and the content blocks, write *)
(* the digest.  Strings are sequences of one-character strings so that     *)
(* ordering, lower-casing, extension splitting and glob matching are       *)
(* computed character by character.  u64 values keep their 64 bits as      *)
(* three limbs (10 + 27 + 27 bits).                                        *)
(*                                                                         *)
(* Environment assumptions: the walked tree holds no ignore files          *)
(* (.gitignore, .ignore) of its own and no symlinks; the characters of all *)
(* names are printable ASCII.                                              *)
(***************************************************************************)
EXTENDS Integers, Sequences, FiniteSets, TLC

\* ---------------------------------------------------------------- bounds
\* At most this many regular files exist under the root.
MaxFiles == 2
\* At most this many paths are handed to generate_tree in SpecTree.
MaxTreePaths == 3

\* ------------------------------------------------------------ characters
\* Printable ASCII in code order; a character's byte value is 31 + its index.
\* The double quote, the backslash and the backtick are spelled out.
Ascii == <<" ", "!", "QUOTE", "#", "$", "%", "&", "'", "(", ")", "*", "+", ",", "-", ".", "/", "0", "1", "2", "3", "4", "5", "6", "7", "8", "9", ":", ";", "<", "=", ">", "?", "@", "A", "B", "C", "D", "E", "F", "G", "H", "I", "J", "K", "L", "M", "N", "O", "P", "Q", "R", "S", "T", "U", "V", "W", "X", "Y", "Z", "[", "BACKSLASH", "]", "^", "_", "BACKTICK", "a", "b", "c", "d", "e", "f", "g", "h", "i", "j", "k", "l", "m", "n", "o", "p", "q", "r", "s", "t", "u", "v", "w", "x", "y", "z", "{", "|", "}", "~">>

CharCode == [c \in {Ascii[i] : i \in 1..Len(Ascii)} |->
               31 + (CHOOSE i \in 1..Len(Ascii) : Ascii[i] = c)]

\* char::to_lowercase on ASCII: 'A'..'Z' (65..90) map to 'a'..'z'.
CharToLower(c) ==
  IF CharCode[c] >= 65 /\ CharCode[c] <= 90 THEN Ascii[CharCode[c] + 32 - 31] ELSE c

to_lowercase_keep_case(s) == s

\* str::to_lowercase
to_lowercase(s) == [i \in 1..Len(s) |-> CharToLower(s[i])]

\* Byte-wise lexicographic comparison of two strings (str / OsStr Ord):
\* -1, 0 or 1.
RECURSIVE CmpStr(_, _)
CmpStr(a, b) ==
  IF a = <<>> /\ b = <<>> THEN 0
  ELSE IF a = <<>> THEN -1
  ELSE IF b = <<>> THEN 1
  ELSE IF CharCode[Head(a)] < CharCode[Head(b)] THEN -1
  ELSE IF CharCode[Head(a)] > CharCode[Head(b)] THEN 1
  ELSE CmpStr(Tail(a), Tail(b))

\* ----------------------------------------------------------------- paths
\* A relative path is the sequence of its components (Path::components);
\* a component is a string.

\* Path::display of a relative path: the components joined by '/'.
RECURSIVE Display(_)
Display(path) ==
  IF path = <<>> THEN <<>>
  ELSE IF Len(path) = 1 THEN path[1]
  ELSE path[1] \o <<"/">> \o Display(Tail(path))

\* impl Ord for Path: compare_components, component by component, each
\* component by its bytes.
RECURSIVE CmpPath(_, _)
CmpPath(a, b) ==
  IF a = <<>> /\ b = <<>> THEN 0
  ELSE IF a = <<>> THEN -1
  ELSE IF b = <<>> THEN 1
  ELSE LET c == CmpStr(Head(a), Head(b))
       IN IF c # 0 THEN c ELSE CmpPath(Tail(a), Tail(b))

\* Insert p into the sorted sequence s, keeping it sorted by CmpPath.
RECURSIVE InsertSorted(_, _)
InsertSorted(p, s) ==
  IF s = <<>> THEN <<p>>
  ELSE IF CmpPath(p, Head(s)) <= 0 THEN <<p>> \o s
  ELSE <<Head(s)>> \o InsertSorted(p, Tail(s))

SortUnsorted(files) == files

\* Vec<PathBuf>::sort(): ascending by impl Ord for Path.
RECURSIVE Sort(_)
Sort(files) ==
  IF files = <<>> THEN <<>> ELSE InsertSorted(Head(files), Sort(Tail(files)))

\* Path::file_name of a non-empty relative path: its last component.
file_name(path) == path[Len(path)]

\* Index of the last '.' in s, 0 when there is none.
LastDot(s) ==
  LET dots == {i \in 1..Len(s) : s[i] = "."}
  IN IF dots = {} THEN 0 ELSE CHOOSE i \in dots : \A j \in dots : j <= i

NoExtension == [some |-> FALSE, ext |-> <<>>]

\* Path::extension: the part of file_name after its last '.', None when the
\* name has no '.', or when its only '.' is the first character.
extension(path) ==
  LET name == file_name(path)
      d    == LastDot(name)
  IN IF d = 0 \/ d = 1 THEN NoExtension
     ELSE [some |-> TRUE, ext |-> SubSeq(name, d + 1, Len(name))]

\* ------------------------------------------------------------------- u64
\* A u64 is hi * 2^54 + mid * 2^27 + lo with hi < 2^10 and mid, lo < 2^27.
U64(h, m, l) == [hi |-> h, mid |-> m, lo |-> l]

U64Gt(a, b) ==
  \/ a.hi > b.hi
  \/ a.hi = b.hi /\ a.mid > b.mid
  \/ a.hi = b.hi /\ a.mid = b.mid /\ a.lo > b.lo

\* x * 1024 overflows 64 bits exactly when x >= 2^54.
MulKiBOverflows(x) == x.hi > 0

\* x * 1024 truncated to 64 bits (the multiplication of a build without
\* overflow checks): a left shift by 10 bits across the limbs.
WrappingMulKiB(x) ==
  U64(x.mid \div (2^17),
      (x.mid % (2^17)) * 1024 + x.lo \div (2^17),
      (x.lo % (2^17)) * 1024)

\* entry.metadata()?.len() > max_size_bytes
TooLarge(len, limit) == U64Gt(len, limit)

\* ------------------------------------------------- default configuration
DEFAULT_IGNORED_DIRS == <<
  <<".", "g", "i", "t", "/">>, <<".", "g", "i", "t", "h", "u", "b", "/">>, <<".", "v", "s", "c", "o", "d", "e", "/">>, <<".", "i", "d", "e", "a", "/">>, <<"v", "e", "n", "v", "/">>, <<".", "e", "n", "v", "/">>,
  <<"n", "o", "d", "e", "_", "m", "o", "d", "u", "l", "e", "s", "/">>, <<".", "n", "e", "x", "t", "/">>, <<"o", "u", "t", "/">>, <<"_", "_", "p", "y", "c", "a", "c", "h", "e", "_", "_", "/">>, <<"t", "a", "r", "g", "e", "t", "/">>,
  <<"p", "k", "g", "/">>, <<"b", "u", "i", "l", "d", "/">>, <<"d", "i", "s", "t", "/">>, <<"c", "o", "v", "e", "r", "a", "g", "e", "/">> >>

DEFAULT_IGNORED_FILES == <<
  <<"p", "n", "p", "m", "-", "l", "o", "c", "k", ".", "y", "a", "m", "l">>, <<"p", "a", "c", "k", "a", "g", "e", "-", "l", "o", "c", "k", ".", "j", "s", "o", "n">>, <<"y", "a", "r", "n", ".", "l", "o", "c", "k">>, <<"C", "a", "r", "g", "o", ".", "l", "o", "c", "k">>,
  <<".", "t", "s", "b", "u", "i", "l", "d", "i", "n", "f", "o">>, <<".", "D", "S", "_", "S", "t", "o", "r", "e">>, <<"c", "o", "m", "p", "o", "n", "e", "n", "t", "s", ".", "j", "s", "o", "n">>, <<"b", "i", "o", "m", "e", ".", "j", "s", "o", "n">>,
  <<"n", "e", "x", "t", "-", "e", "n", "v", ".", "d", ".", "t", "s">>, <<".", "g", "i", "t", "i", "g", "n", "o", "r", "e">>, <<".", "p", "r", "e", "t", "t", "i", "e", "r", "r", "c", ".", "j", "s", "o", "n">>, <<"L", "I", "C", "E", "N", "S", "E">>,
  <<".", "n", "v", "m", "r", "c">>, <<".", "n", "p", "m", "r", "c">>, <<".", "e", "s", "l", "i", "n", "t", "r", "c", ".", "j", "s", "o", "n">>, <<".", "p", "r", "e", "t", "t", "i", "e", "r", "i", "g", "n", "o", "r", "e">>,
  <<"v", "e", "r", "c", "e", "l", ".", "j", "s", "o", "n">> >>

DEFAULT_EXCLUDED_EXTENSIONS == {
  <<".", "p", "n", "g">>, <<".", "j", "p", "g">>, <<".", "j", "p", "e", "g">>, <<".", "g", "i", "f">>, <<".", "b", "m", "p">>, <<".", "i", "c", "o">>, <<".", "w", "e", "b", "p">>,
  <<".", "s", "v", "g">>, <<".", "w", "o", "f", "f">>, <<".", "w", "o", "f", "f", "2">>, <<".", "t", "t", "f">>, <<".", "e", "o", "t">>, <<".", "o", "t", "f">>,
  <<".", "z", "i", "p">>, <<".", "g", "z">>, <<".", "t", "a", "r">>, <<".", "r", "a", "r">>, <<".", "7", "z">>, <<".", "p", "a", "c", "k">>,
  <<".", "w", "a", "s", "m">>, <<".", "d", "l", "l">>, <<".", "e", "x", "e">>, <<".", "s", "o">>, <<".", "a">>, <<".", "l", "i", "b">>, <<".", "b", "i", "n">>,
  <<".", "o">>, <<".", "p", "d", "f">> }

\* ------------------------------------------------------- override globs
\* OverrideBuilder::add hands the line to a gitignore builder with the
\* meaning of '!' inverted: '!' makes the glob an ignore glob, its absence a
\* whitelist glob.  A leading '/' anchors the glob at the root, a trailing
\* '/' makes it match directories only, and a glob without any other '/'
\* matches a name at any depth.
HasChar(s, c) == \E i \in 1..Len(s) : s[i] = c

\* A '[' opens a character class; without a closing ']' the glob is
\* malformed and add fails.
GlobSyntaxOk(s) ==
  \A i \in 1..Len(s) : s[i] = "[" => \E j \in (i + 1)..Len(s) : s[j] = "]"

ParseGlob(line) ==
  LET neg   == line # <<>> /\ Head(line) = "!"
      l1    == IF neg THEN Tail(line) ELSE line
      abs   == l1 # <<>> /\ Head(l1) = "/"
      l2    == IF abs THEN Tail(l1) ELSE l1
      dir   == l2 # <<>> /\ l2[Len(l2)] = "/"
      l3    == IF dir THEN SubSeq(l2, 1, Len(l2) - 1) ELSE l2
  IN [ignore   |-> neg,
      only_dir |-> dir,
      whole    |-> abs \/ HasChar(l3, "/"),
      pat      |-> l3]

\* Glob matching with literal_separator: '*' and '?' never match '/'.
RECURSIVE GlobMatch(_, _)
GlobMatch(pat, s) ==
  IF pat = <<>> THEN s = <<>>
  ELSE IF Head(pat) = "*"
       THEN \/ GlobMatch(Tail(pat), s)
            \/ s # <<>> /\ Head(s) # "/" /\ GlobMatch(pat, Tail(s))
  ELSE IF Head(pat) = "?"
       THEN s # <<>> /\ Head(s) # "/" /\ GlobMatch(Tail(pat), Tail(s))
  ELSE s # <<>> /\ Head(s) = Head(pat) /\ GlobMatch(Tail(pat), Tail(s))

\* Whether one glob of the override list matches the entry at `path`.
GlobMatches(g, path, is_dir) ==
  /\ g.only_dir => is_dir
  /\ IF g.whole THEN GlobMatch(g.pat, Display(path))
     ELSE GlobMatch(g.pat, file_name(path))

\* Override::matched: the last glob of the list that matches decides; when
\* none matches, a file is ignored as soon as the list holds a whitelist
\* glob.
RECURSIVE LastMatch(_, _, _, _)
LastMatch(globs, i, path, is_dir) ==
  IF i = 0 THEN 0
  ELSE IF GlobMatches(globs[i], path, is_dir) THEN i
  ELSE LastMatch(globs, i - 1, path, is_dir)

NumWhitelists(globs) == Cardinality({i \in 1..Len(globs) : ~globs[i].ignore})

OverrideMatched(globs, path, is_dir) ==
  LET i == LastMatch(globs, Len(globs), path, is_dir)
  IN IF i # 0 THEN (IF globs[i].ignore THEN "Ignore" ELSE "Whitelist")
     ELSE IF NumWhitelists(globs) > 0 /\ ~is_dir THEN "Ignore"
     ELSE "None"

\* The hidden-file filter of standard_filters(true).
IsHidden(path) == Head(file_name(path)) = "."

\* The walker's decision for a directory entry below the root: overrides
\* first, then the hidden filter.
ShouldSkip(globs, path, is_dir) ==
  LET m == OverrideMatched(globs, path, is_dir)
  IN IF m = "Whitelist" THEN FALSE
     ELSE IF m = "Ignore" THEN TRUE
     ELSE IsHidden(path)

\* The lines main adds to the OverrideBuilder, in order.
Prefix(ps) == [i \in 1..Len(ps) |-> <<"!">> \o ps[i]]

OverrideLines(a) ==
  Prefix(DEFAULT_IGNORED_DIRS \o DEFAULT_IGNORED_FILES)
    \o << <<"!">> \o a.output >>
    \o Prefix(a.exclude)
    \o a.include

OverridesBuildOk(a) ==
  \A i \in 1..Len(OverrideLines(a)) : GlobSyntaxOk(OverrideLines(a)[i])

BuildOverrides(a) ==
  [i \in 1..Len(OverrideLines(a)) |-> ParseGlob(OverrideLines(a)[i])]

\* ---------------------------------------------------------- generate_tree
\* A TreeNode is its children map: the BTreeMap's entries, a sequence of
\* [name, node] kept in ascending key order.
NameIndex(node, part) ==
  LET hits == {i \in 1..Len(node) : node[i].name = part}
  IN IF hits = {} THEN 0 ELSE CHOOSE i \in hits : TRUE

\* Where a new key goes in the ordered entries: after every smaller key.
InsertionPoint(node, part) ==
  Cardinality({i \in 1..Len(node) : CmpStr(node[i].name, part) < 0}) + 1

\* children.entry(part).or_default(): the index of part's entry and the map
\* holding it.
EntryOrDefault(node, part) ==
  IF NameIndex(node, part) # 0 THEN [at |-> NameIndex(node, part), map |-> node]
  ELSE LET k == InsertionPoint(node, part)
       IN [at  |-> k,
           map |-> SubSeq(node, 1, k - 1) \o <<[name |-> part, node |-> <<>>]>>
                     \o SubSeq(node, k, Len(node))]

\* The inner loop over path.components(): descend from node, creating the
\* missing nodes.
RECURSIVE InsertComponents(_, _)
InsertComponents(node, comps) ==
  IF comps = <<>> THEN node
  ELSE LET e == EntryOrDefault(node, Head(comps))
       IN [e.map EXCEPT ![e.at].node = InsertComponents(@, Tail(comps))]

\* The outer loop over included_files.
RECURSIVE BuildTree(_, _)
BuildTree(node, files) ==
  IF files = <<>> THEN node
  ELSE BuildTree(InsertComponents(node, Head(files)), Tail(files))

\* entries.sort_by(|a, b| a.0.cmp(b.0)) on the collected entries.
RECURSIVE SortEntries(_)
SortEntries(entries) ==
  IF entries = <<>> THEN <<>>
  ELSE LET rest == SortEntries(Tail(entries))
           k    == InsertionPoint(rest, Head(entries).name)
       IN SubSeq(rest, 1, k - 1) \o <<Head(entries)>> \o SubSeq(rest, k, Len(rest))

\* The box-drawing glyphs of the source, spelled in ASCII: the mid-sibling
\* connector, the terminal connector, the vertical bar segment and the
\* blank segment (four characters each).
Tee    == "|-- "
Corner == "+-- "
Bar    == "|   "
Blank  == "    "

ConnectorAlwaysTee(i, n) == Tee

\* The connector of the i-th of n entries (i counted from 1).
Connector(i, n) == IF i = n THEN Corner ELSE Tee

\* The prefix segment the i-th of n entries hands to its children.
Continuation(i, n) == IF i = n THEN Blank ELSE Bar

\* build_string_recursive: one line per entry, a directory's lines right
\* after its own.  A line is [prefix, connector, name]: the parts format!
\* concatenates, prefix being the sequence of four-character segments.
RECURSIVE build_string_recursive(_, _)
RECURSIVE BuildEntries(_, _, _)
BuildEntries(entries, i, prefix) ==
  IF i > Len(entries) THEN <<>>
  ELSE LET n     == Len(entries)
           child == entries[i].node
           line  == [prefix    |-> prefix,
                     connector |-> Connector(i, n),
                     name      |-> entries[i].name]
           below == IF child # <<>>
                    THEN build_string_recursive(
                           child, Append(prefix, Continuation(i, n)))
                    ELSE <<>>
       IN <<line>> \o below \o BuildEntries(entries, i + 1, prefix)

build_string_recursive(node, prefix) ==
  BuildEntries(SortEntries(node), 1, prefix)

\* The first line: the root directory's name with a trailing '/'.
RootLine(root_name) ==
  [prefix |-> <<>>, connector |-> Corner, name |-> root_name \o <<"/">>]

\* A rendering that keeps the children in the order they were first seen:
\* the map replaced by a list, and no sort before printing.
RECURSIVE InsertComponentsUnordered(_, _)
InsertComponentsUnordered(node, comps) ==
  IF comps = <<>> THEN node
  ELSE LET at  == NameIndex(node, Head(comps))
           map == IF at # 0 THEN node
                  ELSE Append(node, [name |-> Head(comps), node |-> <<>>])
           k   == IF at # 0 THEN at ELSE Len(map)
       IN [map EXCEPT ![k].node = InsertComponentsUnordered(@, Tail(comps))]

RECURSIVE BuildTreeUnordered(_, _)
BuildTreeUnordered(node, files) ==
  IF files = <<>> THEN node
  ELSE BuildTreeUnordered(InsertComponentsUnordered(node, Head(files)), Tail(files))

RECURSIVE RenderUnordered(_, _, _)
RenderUnordered(entries, i, prefix) ==
  IF i > Len(entries) THEN <<>>
  ELSE LET n     == Len(entries)
           child == entries[i].node
           line  == [prefix    |-> prefix,
                     connector |-> Connector(i, n),
                     name      |-> entries[i].name]
           below == IF child # <<>>
                    THEN RenderUnordered(child, 1, Append(prefix, Continuation(i, n)))
                    ELSE <<>>
       IN <<line>> \o below \o RenderUnordered(entries, i + 1, prefix)

generate_tree_insertion_order(root_name, included_files) ==
  <<RootLine(root_name)>>
    \o RenderUnordered(BuildTreeUnordered(<<>>, included_files), 1, <<Blank>>)

generate_tree(root_name, included_files) ==
  <<RootLine(root_name)>>
    \o build_string_recursive(BuildTree(<<>>, included_files), <<Blank>>)

\* ------------------------------------------------------- content blocks
IsWhitespace(c) == c \in {" ", "\t", "\n", "\r"}

\* str::trim: leading and trailing whitespace removed.
RECURSIVE TrimStart(_)
TrimStart(s) ==
  IF s # <<>> /\ IsWhitespace(Head(s)) THEN TrimStart(Tail(s)) ELSE s

RECURSIVE TrimEnd(_)
TrimEnd(s) ==
  IF s # <<>> /\ IsWhitespace(s[Len(s)]) THEN TrimEnd(SubSeq(s, 1, Len(s) - 1)) ELSE s

trim(s) == TrimEnd(TrimStart(s))

\* "=".repeat(60)
Rule == [i \in 1..60 |-> "="]

Ok(v)  == [ok |-> TRUE, val |-> v]
Err(e) == [ok |-> FALSE, val |-> e]

BodyDropsError(result) ==
  IF result.ok THEN trim(result.val) ELSE <<>>

\* The match on fs::read_to_string: the trimmed text, or the placeholder
\* naming the error.
Body(result) ==
  IF result.ok THEN trim(result.val)
  ELSE <<"[", "C", "o", "u", "l", "d", " ", "n", "o", "t", " ", "r", "e", "a", "d", " ", "f", "i", "l", "e", ":", " ">> \o result.val \o <<"]">>

\* One file's block of concatenated_content, as the lines pushed.
Block(file_path, result) ==
  << Rule, <<"F", "I", "L", "E", ":", " ">> \o Display(file_path), Rule, Body(result), <<>>, <<>> >>

\* ================================================================= state
VARIABLES
  pc,                    \* where main stands
  status,                \* "running", "ok" (exit zero), or the fatal error
  args,                  \* the parsed command line
  root_kind,             \* what args.path names: "missing", "file" or "dir"
  disk,                  \* the regular files under the root (relative paths)
  out_file,              \* the destination args.output: its state ("absent",
                         \* "old", "partial" or "written") and what was written
  overrides,             \* the compiled override list
  pending,               \* entries the walker has yet to yield
  max_size_bytes,
  tree_files,
  content_files,
  entry,                 \* the loop's current entry and what was done with it
  tree_structure,
  concatenated_content,  \* the blocks pushed so far
  read_result,           \* the last fs::read_to_string result
  call                   \* generate_tree called on its own: the arguments
                         \* and the strings returned so far

vars == <<pc, status, args, root_kind, disk, out_file, overrides, pending,
          max_size_bytes, tree_files, content_files, entry, tree_structure,
          concatenated_content, read_result, call>>

\* ------------------------------------------------------------ the inputs
\* The files that may exist under the root.
Universe == {
  <<<<"a", ".", "r", "s">>>>,          \* ordinary source file
  <<<<"a">>, <<"M", "a", "k", "e", "f", "i", "l", "e">>>>,    \* in a directory; no extension
  <<<<"b", ".", "O">>>>,           \* upper-case excluded extension
  <<<<"d", "i", "g", "e", "s", "t", ".", "t", "x", "t">>>>,    \* a file named like the output
  <<<<"C", "a", "r", "g", "o", ".", "l", "o", "c", "k">>>>,    \* built-in ignored file
  <<<<"t", "a", "r", "g", "e", "t">>, <<"x", ".", "r", "s">>>>,   \* inside a built-in ignored directory
  <<<<".", "a">>>> }           \* hidden; its only '.' leads the name

Disks == {d \in SUBSET Universe : Cardinality(d) <= MaxFiles}

Includes == { <<>>,
              <<<<"*", ".", "r", "s">>>>,
              <<<<"*", ".", "t", "x", "t">>, <<"*", ".", "l", "o", "c", "k">>, <<"*", ".", "a">>, <<"x", ".", "r", "s">>>>,
              <<<<"[">>>> }

Excludes == { <<>>, <<<<"a", ".", "r", "s">>>> }

\* --max-size values: 1, 100 (the default), 2^54 and 2^54 + 1.
MaxSizes == { U64(0, 0, 1), U64(0, 0, 100), U64(1, 0, 0), U64(1, 0, 1) }

ArgSets == [include : Includes, exclude : Excludes, max_size : MaxSizes,
            output : {<<"d", "i", "g", "e", "s", "t", ".", "t", "x", "t">>}]

\* File lengths the metadata may report.
FileLens == { U64(0, 0, 1), U64(0, 0, 1024), U64(0, 0, 1025),
              U64(0, 0, 102400), U64(0, 0, 102401) }

\* What fs::read_to_string may return.
ReadResults == { Ok(<<" ", "x", " ">>),
                 Err(<<"P", "e", "r", "m", "i", "s", "s", "i", "o", "n", " ", "d", "e", "n", "i", "e", "d", " ", "(", "o", "s", " ", "e", "r", "r", "o", "r", " ", "1", "3", ")">>),
                 Err(<<"s", "t", "r", "e", "a", "m", " ", "d", "i", "d", " ", "n", "o", "t", " ", "c", "o", "n", "t", "a", "i", "n", " ", "v", "a", "l", "i", "d", " ", "U", "T", "F", "-", "8">>) }

RootNames == { <<"p", "r", "o", "j">> }

\* ------------------------------------------------------- the file system
IsPrefix(d, f) == Len(d) <= Len(f) /\ SubSeq(f, 1, Len(d)) = d

\* The entries of directory d.
Children(d) == {SubSeq(f, 1, Len(d) + 1) : f \in {g \in disk : IsPrefix(d, g) /\ g # d}}

IsFile(p) == p \in disk

\* The entries of d that the walker will yield.
Kept(d) == {c \in Children(d) : ~ShouldSkip(overrides, c, ~IsFile(c))}

NoEntry == [path |-> <<>>, is_file |-> FALSE, len |-> U64(0, 0, 0), did |-> "none"]

\* The destination file in state s, holding the tree and the blocks written.
OutFile(s, tree, content) == [state |-> s, tree |-> tree, content |-> content]

NoRead == [ok |-> TRUE, val |-> <<>>]

NoCall == [root_name |-> <<>>, included_files |-> <<>>, returned |-> <<>>]

Init ==
  /\ pc = "start"
  /\ status = "running"
  /\ args \in ArgSets
  /\ root_kind \in {"missing", "file", "dir"}
  /\ disk \in Disks
  /\ out_file \in {OutFile("absent", <<>>, <<>>), OutFile("old", <<>>, <<>>)}
  /\ overrides = <<>>
  /\ pending = {}
  /\ max_size_bytes = U64(0, 0, 0)
  /\ tree_files = <<>>
  /\ content_files = <<>>
  /\ entry = NoEntry
  /\ tree_structure = <<>>
  /\ concatenated_content = <<>>
  /\ read_result = NoRead
  /\ call = NoCall

Exit(s) == pc' = "exit" /\ status' = s

\* ----------------------------------------------------------- the actions
\* fs::canonicalize fails.
CanonicalizeFails ==
  /\ pc = "start" /\ root_kind = "missing"
  /\ Exit("error: Failed to find or access path")
  /\ UNCHANGED <<call, args, root_kind, disk, out_file, overrides, pending,
                 max_size_bytes, tree_files, content_files, entry,
                 tree_structure, concatenated_content, read_result>>

\* !root.is_dir(): bail.
NotADirectory ==
  /\ pc = "start" /\ root_kind = "file"
  /\ Exit("error: Provided path is not a directory")
  /\ UNCHANGED <<call, args, root_kind, disk, out_file, overrides, pending,
                 max_size_bytes, tree_files, content_files, entry,
                 tree_structure, concatenated_content, read_result>>

\* An override line is a malformed glob: add fails.
MalformedGlob ==
  /\ pc = "start" /\ root_kind = "dir" /\ ~OverridesBuildOk(args)
  /\ Exit("error: error parsing glob")
  /\ UNCHANGED <<call, args, root_kind, disk, out_file, overrides, pending,
                 max_size_bytes, tree_files, content_files, entry,
                 tree_structure, concatenated_content, read_result>>

\* The root resolves to a directory and the walker is built: its first
\* entry is the root itself.
BuildWalker ==
  /\ pc = "start" /\ root_kind = "dir" /\ OverridesBuildOk(args)
  /\ overrides' = BuildOverrides(args)
  /\ pending' = {<<>>}
  /\ pc' = "discover"
  /\ UNCHANGED <<call, status, args, root_kind, disk, out_file, max_size_bytes,
                 tree_files, content_files, entry, tree_structure,
                 concatenated_content, read_result>>

\* args.max_size * 1024 in a build with overflow checks: panic.
MultiplyPanics ==
  /\ pc = "discover" /\ MulKiBOverflows(args.max_size)
  /\ Exit("panic: attempt to multiply with overflow")
  /\ UNCHANGED <<call, args, root_kind, disk, out_file, overrides, pending,
                 max_size_bytes, tree_files, content_files, entry,
                 tree_structure, concatenated_content, read_result>>

\* args.max_size * 1024 otherwise: the product, truncated to 64 bits.
StartDiscovery ==
  /\ pc = "discover"
  /\ max_size_bytes' = WrappingMulKiB(args.max_size)
  /\ pc' = "walk"
  /\ UNCHANGED <<call, status, args, root_kind, disk, out_file, overrides, pending,
                 tree_files, content_files, entry, tree_structure,
                 concatenated_content, read_result>>

ExtensionBlocked(path) ==
  LET e == extension(path)
  IN e.some /\ (<<".">> \o to_lowercase(e.ext)) \in DEFAULT_EXCLUDED_EXTENSIONS

PushTreeNever(files, relative_path) == files

\* tree_files.push(relative_path.clone())
PushTree(files, relative_path) == Append(files, relative_path)

\* One iteration of the discovery loop on an entry the walker yields.
LoopEntry ==
  /\ pc = "walk"
  /\ \E e \in pending :
       IF ~IsFile(e)
       THEN /\ pending' = (pending \ {e}) \cup Kept(e)
            /\ entry' = [path |-> e, is_file |-> FALSE, len |-> U64(0, 0, 0),
                         did |-> "not a file"]
            /\ UNCHANGED <<call, tree_files, content_files>>
       ELSE /\ pending' = pending \ {e}
            /\ tree_files' = PushTree(tree_files, e)
            /\ IF ExtensionBlocked(e)
               THEN /\ entry' = [path |-> e, is_file |-> TRUE, len |-> U64(0, 0, 0),
                                 did |-> "skipped: excluded extension"]
                    /\ UNCHANGED content_files
               ELSE \E len \in FileLens :
                      IF TooLarge(len, max_size_bytes)
                      THEN /\ entry' = [path |-> e, is_file |-> TRUE, len |-> len,
                                        did |-> "skipped: large file"]
                           /\ UNCHANGED content_files
                      ELSE /\ entry' = [path |-> e, is_file |-> TRUE, len |-> len,
                                        did |-> "content"]
                           /\ content_files' = Append(content_files, e)
  /\ UNCHANGED <<call, pc, status, args, root_kind, disk, out_file, overrides,
                 max_size_bytes, tree_structure, concatenated_content,
                 read_result>>

\* The walker yields an error for an entry.
WalkError ==
  /\ pc = "walk" /\ pending # {}
  /\ Exit("error: Failed to process a directory entry")
  /\ UNCHANGED <<call, args, root_kind, disk, out_file, overrides, pending,
                 max_size_bytes, tree_files, content_files, entry,
                 tree_structure, concatenated_content, read_result>>

\* entry.metadata() fails on a file whose extension is not excluded.
MetadataError ==
  /\ pc = "walk"
  /\ \E e \in pending :
       /\ IsFile(e) /\ ~ExtensionBlocked(e)
       /\ tree_files' = PushTree(tree_files, e)
       /\ pending' = pending \ {e}
       /\ entry' = [path |-> e, is_file |-> TRUE, len |-> U64(0, 0, 0),
                    did |-> "metadata error"]
  /\ Exit("error: metadata")
  /\ UNCHANGED <<call, args, root_kind, disk, out_file, overrides, max_size_bytes,
                 content_files, tree_structure, concatenated_content,
                 read_result>>

\* The walker is exhausted: both listings are sorted.
SortListings ==
  /\ pc = "walk" /\ pending = {}
  /\ tree_files' = Sort(tree_files)
  /\ content_files' = Sort(content_files)
  /\ pc' = "sorted"
  /\ UNCHANGED <<call, status, args, root_kind, disk, out_file, overrides, pending,
                 max_size_bytes, entry, tree_structure, concatenated_content,
                 read_result>>

\* The empty exit of a program that opens its output before looking.
ExitEmptyTouchesOutput ==
  /\ pc = "sorted" /\ tree_files = <<>>
  /\ Exit("ok")
  /\ out_file' = OutFile("written", <<>>, <<>>)
  /\ UNCHANGED <<call, args, root_kind, disk, overrides, pending,
                 max_size_bytes, tree_files, content_files, entry,
                 tree_structure, concatenated_content, read_result>>

\* tree_files.is_empty(): return Ok(()).
ExitEmpty ==
  /\ pc = "sorted" /\ tree_files = <<>>
  /\ Exit("ok")
  /\ UNCHANGED <<call, args, root_kind, disk, out_file, overrides, pending,
                 max_size_bytes, tree_files, content_files, entry,
                 tree_structure, concatenated_content, read_result>>

\* root.file_name() is None (the root is "/"): unwrap panics.
RootNamePanics ==
  /\ pc = "sorted" /\ tree_files # <<>>
  /\ Exit("panic: called Option::unwrap() on a None value")
  /\ UNCHANGED <<call, args, root_kind, disk, out_file, overrides, pending,
                 max_size_bytes, tree_files, content_files, entry,
                 tree_structure, concatenated_content, read_result>>

GenerateTree ==
  /\ pc = "sorted" /\ tree_files # <<>>
  /\ \E root_name \in RootNames :
       tree_structure' = generate_tree(root_name, tree_files)
  /\ pc' = "render"
  /\ UNCHANGED <<call, status, args, root_kind, disk, out_file, overrides, pending,
                 max_size_bytes, tree_files, content_files, entry,
                 concatenated_content, read_result>>

\* One iteration of the loop over content_files.
RenderFile ==
  /\ pc = "render" /\ Len(concatenated_content) < Len(content_files)
  /\ \E r \in ReadResults :
       /\ read_result' = r
       /\ concatenated_content' =
            Append(concatenated_content,
                   Block(content_files[Len(concatenated_content) + 1], r))
  /\ UNCHANGED <<call, pc, status, args, root_kind, disk, out_file, overrides,
                 pending, max_size_bytes, tree_files, content_files, entry,
                 tree_structure>>

\* File::create fails.
CreateFails ==
  /\ pc = "render" /\ Len(concatenated_content) = Len(content_files)
  /\ Exit("error: Failed to create output file")
  /\ UNCHANGED <<call, args, root_kind, disk, out_file, overrides, pending,
                 max_size_bytes, tree_files, content_files, entry,
                 tree_structure, concatenated_content, read_result>>

\* File::create succeeds and a later write fails.
WriteFails ==
  /\ pc = "render" /\ Len(concatenated_content) = Len(content_files)
  /\ out_file' = OutFile("partial", <<>>, <<>>)
  /\ Exit("error: write")
  /\ UNCHANGED <<call, args, root_kind, disk, overrides, pending,
                 max_size_bytes, tree_files, content_files, entry,
                 tree_structure, concatenated_content, read_result>>

\* The digest is written: the tree, then the content blocks.
WriteDigest ==
  /\ pc = "render" /\ Len(concatenated_content) = Len(content_files)
  /\ out_file' = OutFile("written", tree_structure, concatenated_content)
  /\ Exit("ok")
  /\ UNCHANGED <<call, args, root_kind, disk, overrides, pending,
                 max_size_bytes, tree_files, content_files, entry,
                 tree_structure, concatenated_content, read_result>>

Next ==
  \/ CanonicalizeFails \/ NotADirectory \/ MalformedGlob \/ BuildWalker
  \/ MultiplyPanics \/ StartDiscovery
  \/ LoopEntry \/ WalkError \/ MetadataError \/ SortListings
  \/ ExitEmpty \/ RootNamePanics \/ GenerateTree
  \/ RenderFile \/ CreateFails \/ WriteFails \/ WriteDigest

Spec == Init /\ [][Next]_vars

\* ------------------------------------------- generate_tree on its own
\* generate_tree takes any slice of paths.  Here it is called twice, on two
\* orderings of the same paths, outside main.
TreeUniverse == {
  <<<<"s", "r", "c">>, <<"m", "a", "i", "n", ".", "r", "s">>>>, <<<<"s", "r", "c">>, <<"l", "i", "b">>, <<"a", ".", "r", "s">>>>, <<<<"s", "r", "c">>, <<"l", "i", "b">>, <<"b", ".", "r", "s">>>>,
  <<<<"R", "E", "A", "D", "M", "E">>>>, <<<<"a", ".", "b">>>>, <<<<"z">>, <<"y">>, <<"x">>>> }

\* The orderings of the set S: its elements as a sequence without repeats.
Orderings(S) ==
  {s \in [1..Cardinality(S) -> S] : \A i, j \in 1..Cardinality(S) : s[i] = s[j] => i = j}

InitTree ==
  /\ pc = "generate_tree"
  /\ status = "running"
  /\ args = [include |-> <<>>, exclude |-> <<>>, max_size |-> U64(0, 0, 100),
             output |-> <<"d", "i", "g", "e", "s", "t", ".", "t", "x", "t">>]
  /\ root_kind = "dir"
  /\ disk = {}
  /\ out_file = OutFile("absent", <<>>, <<>>)
  /\ overrides = <<>>
  /\ pending = {}
  /\ max_size_bytes = U64(0, 0, 0)
  /\ tree_files = <<>>
  /\ content_files = <<>>
  /\ entry = NoEntry
  /\ tree_structure = <<>>
  /\ concatenated_content = <<>>
  /\ read_result = NoRead
  /\ \E S \in {T \in SUBSET TreeUniverse : Cardinality(T) <= MaxTreePaths} :
       \E a, b \in Orderings(S) :
         call = [root_name |-> <<"p", "r", "o", "j">>, included_files |-> <<a, b>>,
                 returned |-> <<>>]

mainVars == <<pc, status, args, root_kind, disk, out_file, overrides, pending,
              max_size_bytes, tree_files, content_files, entry, tree_structure,
              concatenated_content, read_result>>

CallFirst ==
  /\ pc = "generate_tree" /\ Len(call.returned) = 0
  /\ call' = [call EXCEPT !.returned =
                 <<generate_tree(call.root_name, call.included_files[1])>>]
  /\ UNCHANGED mainVars

CallSecond ==
  /\ pc = "generate_tree" /\ Len(call.returned) = 1
  /\ call' = [call EXCEPT !.returned =
                 Append(@, generate_tree(call.root_name, call.included_files[2]))]
  /\ UNCHANGED mainVars

NextTree == CallFirst \/ CallSecond

SpecTree == InitTree /\ [][NextTree]_vars

\* =============================================================== claims
Range(s) == {s[i] : i \in 1..Len(s)}

\* The discovery loop and the two sorts are over.
Discovered == pc \in {"sorted", "render"}

\* C1: every path of the content listing is also in the tree listing, at
\* every point of the discovery loop and after it.
C1_ContentSubsetOfTree == Range(content_files) \subseteq Range(tree_files)

\* The loop has ended with a file in both listings and a file in the tree
\* listing only.
C1_Witness ==
  /\ pc = "sorted"
  /\ content_files # <<>>
  /\ Range(tree_files) \ Range(content_files) # {}

\* C2: the configured output file name is in neither listing.
C2_OutputNeverListed ==
  /\ <<args.output>> \notin Range(tree_files)
  /\ <<args.output>> \notin Range(content_files)

\* Whether some exclude glob (built-in, output name or --exclude), some
\* include glob, of the compiled list matches the file at path.
MatchesAnExclude(path) ==
  \E i \in 1..Len(overrides) :
    overrides[i].ignore /\ GlobMatches(overrides[i], path, FALSE)

MatchesAnInclude(path) ==
  \E i \in 1..Len(overrides) :
    ~overrides[i].ignore /\ GlobMatches(overrides[i], path, FALSE)

\* C3: a file matching both an exclude pattern and an include pattern is
\* never discovered: exclude takes precedence over include.
C3_ExcludeBeatsInclude ==
  \A p \in Range(tree_files) : ~(MatchesAnExclude(p) /\ MatchesAnInclude(p))

\* len <= max_size * 1024 over the integers, computed without the product:
\* floor(len / 1024) < max_size, or they are equal and len is a whole number
\* of KiB.
FloorKiB(len) ==
  U64(0,
      len.hi * (2^17) + len.mid \div 1024,
      (len.mid % 1024) * (2^17) + len.lo \div 1024)

WithinMaxSize(len, max_size) ==
  \/ U64Gt(max_size, FloorKiB(len))
  \/ max_size = FloorKiB(len) /\ len.lo % 1024 = 0

\* C4: a file that the extension rule lets through is in the content
\* listing exactly when its size in bytes is at most max_size * 1024.
C4_SizeThreshold ==
  (pc = "walk" /\ entry.did \in {"content", "skipped: large file"})
    => ((entry.path \in Range(content_files))
          <=> WithinMaxSize(entry.len, args.max_size))

\* Two characters equal up to the case of an ASCII letter, the second one
\* being lower-case.
SameLetter(c, lower) ==
  \/ c = lower
  \/ CharCode[c] >= 65 /\ CharCode[c] <= 90 /\ CharCode[lower] = CharCode[c] + 32

\* name has an extension that is, case-insensitively and with its dot, a
\* member of the excluded set: the last '.' of name is not its first
\* character and what follows it spells the member.
HasExcludedExtension(name) ==
  \E x \in DEFAULT_EXCLUDED_EXTENSIONS :
    LET k == Len(name) - Len(x) + 1
    IN /\ k >= 2
       /\ \A i \in 1..Len(x) : SameLetter(name[k + i - 1], x[i])
       /\ \A i \in (k + 1)..Len(name) : name[i] # "."

\* C5: the extension rule keeps a discovered file out of the content listing
\* exactly when the file has an excluded extension, compared
\* case-insensitively and whatever the file's size; the file is in the tree
\* listing either way.
C5_ExtensionRule ==
  (pc = "walk" /\ entry.is_file) =>
    /\ (entry.did = "skipped: excluded extension")
         <=> HasExcludedExtension(file_name(entry.path))
    /\ entry.did = "skipped: excluded extension"
         => entry.path \notin Range(content_files)
    /\ entry.path \in Range(tree_files)

\* The loop has skipped the content of a file with an upper-case excluded
\* extension and kept it in the tree listing, and has let a file without
\* extension through.
C5_Witness ==
  /\ pc = "walk"
  /\ entry.did = "skipped: excluded extension"
  /\ entry.path = <<<<"b", ".", "O">>>>
  /\ entry.path \in Range(tree_files)
  /\ \E p \in Range(content_files) : ~extension(p).some

\* The comparison of two paths' string representations, separators
\* included, character by character.
CmpPathAsString(a, b) == CmpStr(Display(a), Display(b))

AscendingBy(Cmp(_, _), files) ==
  \A i \in 1..(Len(files) - 1) : Cmp(files[i], files[i + 1]) < 0

\* C6 as stated: both listings ascend in the lexical order of the paths'
\* string representation.
C6_SortedAsStrings ==
  Discovered => /\ AscendingBy(CmpPathAsString, tree_files)
                /\ AscendingBy(CmpPathAsString, content_files)

\* C6 amended: both listings ascend in the component-wise order of the
\* paths (segment by segment, each segment character by character).
C6_SortedByComponents ==
  Discovered => /\ AscendingBy(CmpPath, tree_files)
                /\ AscendingBy(CmpPath, content_files)

\* Two files were discovered in descending order and the sort has put them
\* in component order, which is not the order of their strings.
C6_Witness ==
  /\ pc = "sorted"
  /\ Len(content_files) = 2
  /\ content_files = << <<<<"a">>, <<"M", "a", "k", "e", "f", "i", "l", "e">>>>, <<<<"a", ".", "r", "s">>>> >>
  /\ tree_files = content_files
  /\ CmpPathAsString(tree_files[1], tree_files[2]) > 0

Placeholder(e) == <<"[", "C", "o", "u", "l", "d", " ", "n", "o", "t", " ", "r", "e", "a", "d", " ", "f", "i", "l", "e", ":", " ">> \o e \o <<"]">>

FatalInRendering == {"error: Failed to create output file", "error: write"}

\* C7: a failed read gives the file's block its banner and a placeholder with
\* the error's description; the run is never aborted inside the rendering
\* loop; and a digest that is written holds one block per file of the content
\* listing, in order.
C7_ReadFailureIsRecoverable ==
  /\ (pc = "render" /\ concatenated_content # <<>> /\ ~read_result.ok) =>
       LET n == Len(concatenated_content)
       IN /\ status = "running"
          /\ concatenated_content[n] =
               << Rule, <<"F", "I", "L", "E", ":", " ">> \o Display(content_files[n]), Rule,
                  Placeholder(read_result.val), <<>>, <<>> >>
  /\ (status \notin {"running", "ok"} /\ concatenated_content # <<>>) =>
       /\ status \in FatalInRendering
       /\ Len(concatenated_content) = Len(content_files)
  /\ (status = "ok" /\ tree_files # <<>>) =>
       /\ Len(out_file.content) = Len(content_files)
       /\ \A i \in 1..Len(content_files) :
            out_file.content[i][2] = <<"F", "I", "L", "E", ":", " ">> \o Display(content_files[i])

\* The run has exited zero with a digest of two blocks, the first of them a
\* placeholder for a failed read and the second a file's text.
C7_Witness ==
  /\ pc = "exit" /\ status = "ok"
  /\ Len(content_files) = 2
  /\ out_file.content[1][4] = Placeholder(<<"s", "t", "r", "e", "a", "m", " ", "d", "i", "d", " ", "n", "o", "t", " ", "c", "o", "n", "t", "a", "i", "n", " ", "v", "a", "l", "i", "d", " ", "U", "T", "F", "-", "8">>)
  /\ out_file.content[2][4] = <<"x">>

\* C8: the output file changes only in the step that follows the rendering
\* of the last block, with traversal, classification and tree rendering
\* done: no run that ends earlier creates or modifies it.
C8_OutputOnlyAtTheEnd ==
  [][out_file' # out_file =>
       /\ pc = "render"
       /\ Len(concatenated_content) = Len(content_files)
       /\ tree_files # <<>>
       /\ tree_structure # <<>>
       /\ status' \in {"ok", "error: write"}]_vars

\* A run that discovered nothing has exited zero and an existing output file
\* is as it was.
C8_Witness ==
  /\ pc = "exit" /\ status = "ok"
  /\ tree_files = <<>>
  /\ disk # {}
  /\ out_file = OutFile("old", <<>>, <<>>)

\* C9: the two strings generate_tree returns for two orderings of the same
\* paths are identical.
C9_OrderIndependent ==
  Len(call.returned) = 2 => call.returned[1] = call.returned[2]

\* generate_tree has returned for two different orderings of three paths.
C9_Witness ==
  /\ Len(call.returned) = 2
  /\ Len(call.included_files[1]) = 3
  /\ call.included_files[1] # call.included_files[2]

\* The distinct non-empty path prefixes of the paths: the directories and
\* files the tree has a line for.
PrefixesOf(files) ==
  {SubSeq(f, 1, k) : <<f, k>> \in
     {<<g, j>> \in Range(files) \X (1..4) : j <= Len(g)}}

Parent(q) == SubSeq(q, 1, Len(q) - 1)

\* q is the last of its parent's children in lexical order of segment name.
IsLastSibling(q, all) ==
  \A r \in all :
    (Len(r) = Len(q) /\ Parent(r) = Parent(q)) =>
      CmpStr(r[Len(r)], q[Len(q)]) <= 0

\* The line of prefix q: a blank segment for the root, one segment per
\* ancestor below the root, the connector, the last segment's name.
LineOf(q, all) ==
  [prefix    |-> <<Blank>> \o
                   [k \in 1..(Len(q) - 1) |->
                      IF IsLastSibling(SubSeq(q, 1, k), all) THEN Blank ELSE Bar],
   connector |-> IF IsLastSibling(q, all) THEN Corner ELSE Tee,
   name      |-> q[Len(q)]]

\* The place of q's line below the root line: children in lexical order with
\* each directory's lines right after its own puts q after exactly the
\* prefixes that precede it component-wise.
PlaceOf(q, all) == 1 + Cardinality({r \in all : CmpPath(r, q) < 0})

\* C10: the rendered tree has, below the root line, exactly one line per
\* distinct path prefix, the children of every node in lexical order, the
\* last child drawn with the terminal connector and the others with the
\* mid-sibling connector, each line prefixed by one segment per ancestor:
\* blank under a last sibling, a vertical bar otherwise.
C10_TreeShape ==
  \A n \in 1..Len(call.returned) :
    LET all == PrefixesOf(call.included_files[n])
        out == call.returned[n]
    IN /\ Len(out) = 1 + Cardinality(all)
       /\ \A q \in all : out[1 + PlaceOf(q, all)] = LineOf(q, all)

\* A tree was rendered in which a file lies two directories deep, under a
\* directory that is not the last of its siblings.
C10_Witness ==
  /\ Len(call.returned) = 2
  /\ \E i \in 1..Len(call.returned[1]) :
       /\ call.returned[1][i].prefix = <<Blank, Bar, Blank>>
       /\ call.returned[1][i].connector = Corner
====
